---- MODULE Spec2Model ----
(***************************************************************************)
(* A model of the glTF editor (src/editor.py): the Gltf object, its three  *)
(* representation flags, the buffer materializer, the multiprimitive       *)
(* expander and the mesh splitter.                                         *)
(*                                                                         *)
(* Python objects have identity: every dict of the document carries an     *)
(* "id" field (drawn from one allocator, so an id is never a position),    *)
(* and a direct reference to an object is a link [k |-> "ref", v |-> id].  *)
(* An integer link of the JSON is [k |-> "idx", v |-> i] (0-based, as in   *)
(* the file), and an absent key is NoLink.  Byte strings are sequences of  *)
(* naturals.  An exception is recorded in err, and ends the run.           *)
(***************************************************************************)
EXTENDS Integers, Sequences, FiniteSets, TLC

VARIABLES
    json,                   \* self.json: the document tree
    _node_mesh_reference,   \* self._node_mesh_reference
    _accessor_data,         \* self._accessor_data
    _accessor_reference,    \* self._accessor_reference
    files,                  \* the side files of inpath.parent: uri -> bytes
    written,                \* the output files written so far (sequence of names)
    err,                    \* "" or the name of the exception that ended the run
    nextId,                 \* the next fresh object identity
    op,                     \* the last operation that ran
    ret,                    \* the value the last operation returned
    snap                    \* what earlier operations saw (history, for the claims)

vars == <<json, _node_mesh_reference, _accessor_data, _accessor_reference,
          files, written, err, nextId, op, ret, snap>>

----------------------------------------------------------------------------
(* Bounds of the model *)

\* split_disconnected_mesh only appends accessors: it runs while there are
\* fewer than MaxAccessors.
MaxAccessors == 4
\* The triangle lists drawn for the splitter hold at most MaxTris triangles.
MaxTris == 3
\* The layouts drawn for the materializer hold at most MaxViews buffer views.
MaxViews == 2

----------------------------------------------------------------------------
(* Python's list indexing and slicing *)

NoLink == [k |-> "none", v |-> 0]
Idx(i) == [k |-> "idx", v |-> i]
Ref(o) == [k |-> "ref", v |-> o]

\* seq[i] succeeds: a negative i counts from the end.
PyIndexOK(seq, i) == -Len(seq) <= i /\ i < Len(seq)

\* The 1-based position Python's seq[i] reads.
PyPos(seq, i) == IF i >= 0 THEN i + 1 ELSE Len(seq) + i + 1

PyGet(seq, i) == seq[PyPos(seq, i)]

ClampIndex(n, i) ==
    LET j == IF i < 0 THEN i + n ELSE i
    IN IF j < 0 THEN 0 ELSE IF j > n THEN n ELSE j

\* seq[lo:hi]
PySlice(seq, lo, hi) ==
    LET a == ClampIndex(Len(seq), lo)
        b == ClampIndex(Len(seq), hi)
    IN IF a < b THEN SubSeq(seq, a + 1, b) ELSE <<>>

Zeros(n) == [i \in 1..n |-> 0]

SetMin(S) == CHOOSE x \in S : \A y \in S : x <= y

RECURSIVE Flatten(_)
Flatten(ss) == IF ss = <<>> THEN <<>> ELSE Head(ss) \o Flatten(Tail(ss))

Raise(s, e) == IF s.err = "" THEN [s EXCEPT !.err = e] ELSE s

\* An assignment statement: the right-hand side is evaluated once, and F is
\* what follows with the assigned name bound to its value
Bind(v, F(_)) == CHOOSE r \in {F(y) : y \in {v}} : TRUE

----------------------------------------------------------------------------
(* The accessor codec *)

ACCESSOR_TYPE_MULTIPLIER ==
    [SCALAR |-> 1, VEC2 |-> 2, VEC3 |-> 3, VEC4 |-> 4,
     MAT2 |-> 4, MAT3 |-> 9, MAT4 |-> 16]

COMPONENT_TYPE ==
    [c \in {5120, 5121, 5122, 5123, 5125, 5126} |->
        CASE c = 5120 -> "BYTE"
          [] c = 5121 -> "UNSIGNED_BYTE"
          [] c = 5122 -> "SHORT"
          [] c = 5123 -> "UNSIGNED_SHORT"
          [] c = 5125 -> "UNSIGNED_INT"
          [] c = 5126 -> "FLOAT"]

COMPONENT_FORMAT ==
    [BYTE |-> "b", UNSIGNED_BYTE |-> "B", SHORT |-> "h",
     UNSIGNED_SHORT |-> "H", UNSIGNED_INT |-> "I", FLOAT |-> "f"]

\* struct's standard sizes ("<": no alignment padding)
FormatSize(f) ==
    CASE f \in {"b", "B"} -> 1
      [] f \in {"h", "H"} -> 2
      [] OTHER -> 4

\* struct.Struct(f"<{multiplier}{format}")
accessor_struct(accessor) ==
    LET multiplier == ACCESSOR_TYPE_MULTIPLIER[accessor.type]
        fmt == COMPONENT_FORMAT[COMPONENT_TYPE[accessor.componentType]]
    IN [n |-> multiplier, fmt |-> fmt, size |-> multiplier * FormatSize(fmt)]

RECURSIVE LittleEndian(_)
LittleEndian(bs) ==
    IF bs = <<>> THEN 0 ELSE Head(bs) + 256 * LittleEndian(Tail(bs))

\* One scalar of a record: little-endian, two's complement for "b" and "h";
\* a float is kept as its bit pattern.
DecodeComponent(fmt, bs) ==
    LET u == LittleEndian(bs)
    IN IF fmt \in {"b", "h"} /\ u >= 2 ^ (8 * Len(bs) - 1)
       THEN u - 2 ^ (8 * Len(bs))
       ELSE u

ComponentInRange(fmt, v) ==
    LET w == 8 * FormatSize(fmt)
    IN IF fmt \in {"b", "h"}
       THEN -(2 ^ (w - 1)) <= v /\ v < 2 ^ (w - 1)
       ELSE 0 <= v /\ (w = 32 \/ v < 2 ^ w)

EncodeComponent(fmt, v) ==
    LET w == FormatSize(fmt)
        u == IF v < 0 THEN v + 2 ^ (8 * w) ELSE v
    IN [i \in 1..w |-> (u \div (256 ^ (i - 1))) % 256]

\* struct.iter_unpack: the records of data, in order
iter_unpack(st, data) ==
    [e \in 1..(Len(data) \div st.size) |->
        [c \in 1..st.n |->
            DecodeComponent(st.fmt,
                SubSeq(data,
                       (e - 1) * st.size + (c - 1) * FormatSize(st.fmt) + 1,
                       (e - 1) * st.size + c * FormatSize(st.fmt)))]]

\* iter_unpack raises struct.error unless the bytes are whole records.
UnpackOK(st, data) == Len(data) % st.size = 0

\* pack_all into a bytearray of len(data) * size zero bytes
pack_all(st, data) ==
    Flatten([e \in 1..Len(data) |->
        Flatten([c \in 1..st.n |-> EncodeComponent(st.fmt, data[e][c])])])

PackOK(st, data) ==
    \A e \in 1..Len(data) :
        /\ Len(data[e]) = st.n
        /\ \A c \in 1..st.n : ComponentInRange(st.fmt, data[e][c])

\* align without the multiplication back: the number of whole blocks
align_blocks(n, alignment) == (n + alignment - 1) \div alignment

align(n, alignment) == ((n + alignment - 1) \div alignment) * alignment

\* groupby(iterator, n): whole runs of n; a trailing partial run is dropped
groupby(items, n) ==
    [g \in 1..(Len(items) \div n) |-> SubSeq(items, (g - 1) * n + 1, g * n)]

----------------------------------------------------------------------------
(* The representation toggler: node -> mesh and node -> child links *)

\* The link a Python subscript target[link] leaves: the object at that index.
\* (IndexError when the index is out of range: see IndexResolves.)
Resolve(target, link) == Ref(PyGet(target, link.v).id)

IndexResolves(target, link) == link.k = "idx" /\ PyIndexOK(target, link.v)

\* {id(x): i for i, x in enumerate(target)}[id]: the last position holding id
IdKnown(target, o) == \E i \in 1..Len(target) : target[i].id = o

\* link is a key of that dict: a direct reference to an element of target
RefKnown(target, link) == link.k = "ref" /\ IdKnown(target, link.v)

\* The same dict built with enumerate(target, 1)
IdIndex_from_one(target, o) ==
    CHOOSE i \in 1..Len(target) :
        /\ target[i].id = o
        /\ \A j \in 1..Len(target) : target[j].id = o => j <= i

IdIndex(target, o) ==
    (CHOOSE i \in 1..Len(target) :
        /\ target[i].id = o
        /\ \A j \in 1..Len(target) : target[j].id = o => j <= i) - 1

\* One pass of the loop body of _set_node_mesh_references over node n.
DerefNode(s, n) ==
    LET nodes == s.json.nodes
        meshes == s.json.meshes
        node == nodes[n]
        ch == node.children
        bad == {i \in 1..Len(ch) : ~IndexResolves(nodes, ch[i])}
        stop == IF bad = {} THEN Len(ch) + 1 ELSE SetMin(bad)
        ch2 == [i \in 1..Len(ch) |->
                   IF i < stop THEN Resolve(nodes, ch[i]) ELSE ch[i]]
        s1 == [s EXCEPT !.json.nodes[n].children = ch2]
    IN IF bad # {} THEN Raise(s1, "IndexError")
       ELSE IF node.mesh.k = "none" THEN s1
       ELSE IF ~IndexResolves(meshes, node.mesh) THEN Raise(s1, "IndexError")
       ELSE [s1 EXCEPT !.json.nodes[n].mesh = Resolve(meshes, node.mesh)]

RECURSIVE DerefNodes(_, _)
DerefNodes(s, n) ==
    IF s.err # "" \/ n > Len(s.json.nodes) THEN s
    ELSE DerefNodes(DerefNode(s, n), n + 1)

_set_node_mesh_references(s) == DerefNodes(s, 1)

\* One pass of the loop body of _set_node_mesh_indices over node n.
ReindexNode(s, n) ==
    LET nodes == s.json.nodes
        meshes == s.json.meshes
        node == nodes[n]
        ch == node.children
        meshOK == node.mesh.k = "none" \/ RefKnown(meshes, node.mesh)
        s1 == IF node.mesh.k = "none" \/ ~meshOK THEN s
              ELSE [s EXCEPT !.json.nodes[n].mesh =
                                 Idx(IdIndex(meshes, node.mesh.v))]
        bad == {i \in 1..Len(ch) : ~RefKnown(nodes, ch[i])}
        stop == IF bad = {} THEN Len(ch) + 1 ELSE SetMin(bad)
        ch2 == [i \in 1..Len(ch) |->
                   IF i < stop THEN Idx(IdIndex(nodes, ch[i].v)) ELSE ch[i]]
    IN IF ~meshOK THEN Raise(s, "KeyError")
       ELSE IF ~node.hasChildren THEN s1
       ELSE IF bad # {} THEN Raise([s1 EXCEPT !.json.nodes[n].children = ch2],
                                   "KeyError")
       ELSE [s1 EXCEPT !.json.nodes[n].children = ch2]

RECURSIVE ReindexNodes(_, _)
ReindexNodes(s, n) ==
    IF s.err # "" \/ n > Len(s.json.nodes) THEN s
    ELSE ReindexNodes(ReindexNode(s, n), n + 1)

_set_node_mesh_indices(s) == ReindexNodes(s, 1)

\* The setter that only records the flag when references are switched off
node_mesh_reference_flag_only(s, mode) ==
    IF s.err # "" \/ mode = s.nmr THEN s
    ELSE IF mode THEN _set_node_mesh_references([s EXCEPT !.nmr = mode])
    ELSE [s EXCEPT !.nmr = mode]

\* The setter of Gltf.node_mesh_reference
node_mesh_reference(s, mode) ==
    IF s.err # "" \/ mode = s.nmr THEN s
    ELSE IF mode THEN _set_node_mesh_references([s EXCEPT !.nmr = mode])
    ELSE _set_node_mesh_indices([s EXCEPT !.nmr = mode])

----------------------------------------------------------------------------
(* The representation toggler: primitive -> accessor links *)

\* _add_accessor_reference, for primitive p of mesh m
DerefPrimitive(s, m, p) ==
    LET accessors == s.json.accessors
        prim == s.json.meshes[m].primitives[p]
        at == prim.attributes
        bad == {i \in 1..Len(at) : ~IndexResolves(accessors, at[i].acc)}
        stop == IF bad = {} THEN Len(at) + 1 ELSE SetMin(bad)
        at2 == [i \in 1..Len(at) |->
                   IF i < stop
                   THEN [at[i] EXCEPT !.acc = Resolve(accessors, at[i].acc)]
                   ELSE at[i]]
        s1 == [s EXCEPT !.json.meshes[m].primitives[p].attributes = at2]
    IN IF bad # {} THEN Raise(s1, "IndexError")
       ELSE IF prim.indices.k = "none" THEN s1
       ELSE IF ~IndexResolves(accessors, prim.indices)
            THEN Raise(s1, "IndexError")
       ELSE [s1 EXCEPT !.json.meshes[m].primitives[p].indices =
                           Resolve(accessors, prim.indices)]

\* _remove_accessor_reference, for primitive p of mesh m
ReindexPrimitive(s, m, p) ==
    LET accessors == s.json.accessors
        prim == s.json.meshes[m].primitives[p]
        at == prim.attributes
        bad == {i \in 1..Len(at) : ~RefKnown(accessors, at[i].acc)}
        stop == IF bad = {} THEN Len(at) + 1 ELSE SetMin(bad)
        at2 == [i \in 1..Len(at) |->
                   IF i < stop
                   THEN [at[i] EXCEPT !.acc = Idx(IdIndex(accessors, at[i].acc.v))]
                   ELSE at[i]]
        s1 == [s EXCEPT !.json.meshes[m].primitives[p].attributes = at2]
    IN IF bad # {} THEN Raise(s1, "KeyError")
       ELSE IF prim.indices.k = "none" THEN s1
       ELSE IF ~RefKnown(accessors, prim.indices) THEN Raise(s1, "KeyError")
       ELSE [s1 EXCEPT !.json.meshes[m].primitives[p].indices =
                           Idx(IdIndex(accessors, prim.indices.v))]

\* for mesh in meshes: for primitive in mesh["primitives"]: ...
RECURSIVE EachPrimitive(_, _, _, _)
EachPrimitive(s, deref, m, p) ==
    IF s.err # "" \/ m > Len(s.json.meshes) THEN s
    ELSE IF p > Len(s.json.meshes[m].primitives)
         THEN EachPrimitive(s, deref, m + 1, 1)
    ELSE EachPrimitive(IF deref THEN DerefPrimitive(s, m, p)
                       ELSE ReindexPrimitive(s, m, p),
                       deref, m, p + 1)

_add_accessor_reference(s) == EachPrimitive(s, TRUE, 1, 1)

_remove_accessor_reference(s) == EachPrimitive(s, FALSE, 1, 1)

\* The setter of Gltf.accessor_reference
accessor_reference(s, reference) ==
    IF s.err # "" \/ reference = s.ar THEN s
    ELSE IF reference THEN _add_accessor_reference([s EXCEPT !.ar = reference])
    ELSE _remove_accessor_reference([s EXCEPT !.ar = reference])

----------------------------------------------------------------------------
(* The buffer materializer *)

\* sorted(...) on pairs: Python compares tuples lexicographically, and the
\* sort is stable.
KeyLess(x, y) == x[1] < y[1] \/ (x[1] = y[1] /\ x[2] < y[2])

RECURSIVE SortIdx(_, _)
SortIdx(keys, S) ==
    IF S = {} THEN <<>>
    ELSE LET m == CHOOSE i \in S : \A j \in S \ {i} :
                      \/ KeyLess(keys[i], keys[j])
                      \/ (~KeyLess(keys[j], keys[i]) /\ i < j)
         IN <<m>> \o SortIdx(keys, S \ {m})

\* The positions of keys' elements in sorted order
sorted(keys) == SortIdx(keys, DOMAIN keys)

\* for buffer in buffers: buffer["data"] = bytearray(f.read())
LoadBuffers(s) ==
    LET bufs == s.json.buffers
        missing == {b \in 1..Len(bufs) : bufs[b].uri \notin DOMAIN s.files}
        stop == IF missing = {} THEN Len(bufs) + 1 ELSE SetMin(missing)
        s1 == [s EXCEPT !.json.buffers =
                  [b \in 1..Len(bufs) |->
                      IF b < stop
                      THEN [bufs[b] EXCEPT !.hasData = TRUE,
                                           !.data = s.files[bufs[b].uri]]
                      ELSE bufs[b]]]
    IN IF missing # {} THEN Raise(s1, "FileNotFoundError") ELSE s1

\* for buffer_view in bufferViews: buffer_view["data"] = buffer["data"][...]
SliceBufferViews(s) ==
    LET bufs == s.json.buffers
        bvs == s.json.bufferViews
        bad == {v \in 1..Len(bvs) : ~PyIndexOK(bufs, bvs[v].buffer)}
        stop == IF bad = {} THEN Len(bvs) + 1 ELSE SetMin(bad)
        s1 == [s EXCEPT !.json.bufferViews =
                  [v \in 1..Len(bvs) |->
                      IF v < stop
                      THEN [bvs[v] EXCEPT
                              !.hasData = TRUE,
                              !.data = PySlice(PyGet(bufs, bvs[v].buffer).data,
                                               bvs[v].byteOffset,
                                               bvs[v].byteOffset + bvs[v].byteLength)]
                      ELSE bvs[v]]]
    IN IF s.err # "" THEN s
       ELSE IF bad # {} THEN Raise(s1, "IndexError") ELSE s1

\* for index, accessor in enumerate(accessors): accessor["data"] = ...
SliceAccessors(s) ==
    LET bvs == s.json.bufferViews
        accs == s.json.accessors
        bad == {a \in 1..Len(accs) : ~PyIndexOK(bvs, accs[a].bufferView)}
        stop == IF bad = {} THEN Len(accs) + 1 ELSE SetMin(bad)
        s1 == [s EXCEPT !.json.accessors =
                  [a \in 1..Len(accs) |->
                      IF a < stop
                      THEN [accs[a] EXCEPT
                              !.hasData = TRUE,
                              !.data = PySlice(PyGet(bvs, accs[a].bufferView).data,
                                               accs[a].byteOffset,
                                               accs[a].byteOffset
                                                 + accs[a].count
                                                     * accessor_struct(accs[a]).size)]
                      ELSE accs[a]]]
    IN IF s.err # "" THEN s
       ELSE IF bad # {} THEN Raise(s1, "IndexError") ELSE s1

_add_accessor_data(s) == SliceAccessors(SliceBufferViews(LoadBuffers(s)))

\* The first sorted loop of _remove_accessor_data: accessors into their views
RECURSIVE PackAccessors(_, _)
PackAccessors(s, order) ==
    IF s.err # "" \/ order = <<>> THEN s
    ELSE LET a == Head(order)
             acc == s.json.accessors[a]
             bvs == s.json.bufferViews
         IN IF ~PyIndexOK(bvs, acc.bufferView) THEN Raise(s, "IndexError")
            ELSE LET v == PyPos(bvs, acc.bufferView)
                     byteOffset == align(Len(bvs[v].data), 4)
                     padding == byteOffset - Len(bvs[v].data)
                     s1 == [s EXCEPT
                              !.json.accessors[a].byteOffset = byteOffset,
                              !.json.bufferViews[v].data = @ \o Zeros(padding)]
                 IN IF ~acc.hasData THEN Raise(s1, "KeyError")
                    ELSE PackAccessors(
                           [s1 EXCEPT
                              !.json.bufferViews[v].data = @ \o acc.data,
                              !.json.accessors[a].hasData = FALSE,
                              !.json.accessors[a].data = <<>>],
                           Tail(order))

PaddingOf(length, byteOffset) == length - byteOffset

\* The second sorted loop of _remove_accessor_data: views into their buffers
RECURSIVE PackBufferViews(_, _)
PackBufferViews(s, order) ==
    IF s.err # "" \/ order = <<>> THEN s
    ELSE LET v == Head(order)
             bv == s.json.bufferViews[v]
             bufs == s.json.buffers
         IN IF ~PyIndexOK(bufs, bv.buffer) THEN Raise(s, "IndexError")
            ELSE LET b == PyPos(bufs, bv.buffer)
                     byteOffset == align(Len(bufs[b].data), 4)
                     padding == PaddingOf(Len(bufs[b].data), byteOffset)
                     s1 == [s EXCEPT !.json.bufferViews[v].byteOffset = byteOffset]
                 IN IF padding < 0 THEN Raise(s1, "ValueError")
                    ELSE PackBufferViews(
                           [s1 EXCEPT
                              !.json.buffers[b].data =
                                  @ \o bv.data \o Zeros(padding),
                              !.json.bufferViews[v].hasData = FALSE,
                              !.json.bufferViews[v].data = <<>>],
                           Tail(order))

_remove_accessor_data(s) ==
    LET accs == s.json.accessors
        bvs == s.json.bufferViews
        s1 == [s EXCEPT !.json.bufferViews =
                  [v \in 1..Len(bvs) |->
                      [bvs[v] EXCEPT !.hasData = TRUE, !.data = <<>>]]]
        s2 == PackAccessors(s1,
                  sorted([a \in 1..Len(accs) |->
                             <<accs[a].bufferView, accs[a].byteOffset>>]))
        s3 == [s2 EXCEPT
                 !.json.bufferViews =
                     [v \in 1..Len(bvs) |->
                         [s2.json.bufferViews[v] EXCEPT
                            !.byteLength = Len(s2.json.bufferViews[v].data)]],
                 !.json.buffers =
                     [b \in 1..Len(s.json.buffers) |->
                         [s.json.buffers[b] EXCEPT !.hasData = TRUE, !.data = <<>>]]]
    IN IF s2.err # "" THEN s2
       ELSE PackBufferViews(s3,
                sorted([v \in 1..Len(bvs) |->
                           <<bvs[v].buffer, bvs[v].byteOffset>>]))

\* The setter of Gltf.accessor_data
accessor_data(s, data) ==
    IF s.err # "" \/ data = s.ad THEN s
    ELSE IF data THEN _add_accessor_data([s EXCEPT !.ad = data])
    ELSE _remove_accessor_data([s EXCEPT !.ad = data])

\* get_accessor_data, once self.accessor_data = True has run: the records of
\* accessor["data"]
get_accessor_data(accessor) ==
    iter_unpack(accessor_struct(accessor), accessor.data)

\* accessor["data"] is a whole number of records (struct.error otherwise)
AccessorUnpackOK(accessor) == UnpackOK(accessor_struct(accessor), accessor.data)

\* index for (index,) in get_accessor_data(...)
FirstComponents(unpacked) == [e \in 1..Len(unpacked) |-> unpacked[e][1]]

\* The accessor object a direct reference names
AccessorOf(s, link) ==
    s.json.accessors[CHOOSE a \in 1..Len(s.json.accessors) :
                        s.json.accessors[a].id = link.v]

----------------------------------------------------------------------------
(* The incremental union-find structure (union_find.UnionFind): elements    *)
(* are 0, 1, 2, ... in the order of add(); parent[x + 1] is x's parent.     *)

UFNew == <<>>

UFAdd(parent) == Append(parent, Len(parent))

RECURSIVE UFFind(_, _)
UFFind(parent, x) ==
    IF parent[x + 1] = x THEN x ELSE UFFind(parent, parent[x + 1])

UFUnion(parent, a, b) ==
    LET ra == UFFind(parent, a)
        rb == UFFind(parent, b)
    IN IF ra = rb THEN parent
       ELSE IF ra < rb THEN [parent EXCEPT ![rb + 1] = ra]
       ELSE [parent EXCEPT ![ra + 1] = rb]

RECURSIVE SetToSeq(_)
SetToSeq(S) ==
    IF S = {} THEN <<>>
    ELSE LET m == SetMin(S) IN <<m>> \o SetToSeq(S \ {m})

\* groups(): one list of elements per root, each in ascending order
UFGroups(parent) ==
    LET elems == 0..(Len(parent) - 1)
        roots == SetToSeq({UFFind(parent, x) : x \in elems})
    IN [g \in 1..Len(roots) |->
           SetToSeq({x \in elems : UFFind(parent, x) = roots[g]})]

----------------------------------------------------------------------------
(* Connected components *)

\* The loop body without the union: a point only remembers its last triangle
VisitPoint_no_union(st, point, i) ==
    [st EXCEPT !.point_map = (point :> i) @@ @]

\* The body of find_with_union's inner loop, for one point of triangle i
VisitPoint(st, point, i) ==
    IF point \in DOMAIN st.point_map
    THEN [st EXCEPT !.tri_set = UFUnion(@, st.point_map[point], i)]
    ELSE [st EXCEPT !.point_map = @ @@ (point :> i)]

RECURSIVE VisitPoints(_, _, _)
VisitPoints(st, points, i) ==
    IF points = <<>> THEN st
    ELSE VisitPoints(VisitPoint(st, Head(points), i), Tail(points), i)

\* The outer loop of find_with_union from triangle i (0-based) on;
\* triangles[i + 1] is get_points(triangle i).
RECURSIVE VisitTriangles(_, _, _)
VisitTriangles(st, triangles, i) ==
    IF i >= Len(triangles) THEN st
    ELSE VisitTriangles(
             VisitPoints([st EXCEPT !.tri_set = UFAdd(@)], triangles[i + 1], i),
             triangles, i + 1)

\* find_with_union(indices, get_points), given the points of each triangle:
\* the list of Component.tri_indices
find_with_union(triangles) ==
    UFGroups(VisitTriangles([point_map |-> <<>>, tri_set |-> UFNew],
                            triangles, 0).tri_set)

\* primitive["attributes"][name]
HasAttribute(primitive, name) ==
    \E i \in 1..Len(primitive.attributes) : primitive.attributes[i].name = name

Attribute(primitive, name) ==
    primitive.attributes[CHOOSE i \in 1..Len(primitive.attributes) :
                            primitive.attributes[i].name = name].acc

\* get_points(triangle) for every triangle
PointsOf(positions, tris) ==
    [t \in 1..Len(tris) |-> [c \in 1..Len(tris[t]) |-> PyGet(positions, tris[t][c])]]

\* _find_connected_components(mesh_index): the state it leaves, with the
\* components in ret
_find_connected_components(s0, mesh_index) ==
    Bind(accessor_reference(node_mesh_reference(s0, TRUE), FALSE), LAMBDA s1 :
    IF s1.err # "" THEN s1
    ELSE IF ~PyIndexOK(s1.json.meshes, mesh_index) THEN Raise(s1, "IndexError")
    ELSE Bind(PyGet(s1.json.meshes, mesh_index).primitives, LAMBDA primitives :
    IF primitives = <<>> THEN Raise(s1, "IndexError")
    ELSE IF ~HasAttribute(primitives[1], "POSITION")
            \/ primitives[1].indices.k = "none"
         THEN Raise(s1, "KeyError")
    ELSE IF ~PyIndexOK(s1.json.accessors, Attribute(primitives[1], "POSITION").v)
         THEN Raise(s1, "IndexError")
    ELSE Bind(accessor_data(s1, TRUE), LAMBDA s2 :
    IF s2.err # "" THEN s2
    ELSE Bind(PyGet(s2.json.accessors, Attribute(primitives[1], "POSITION").v),
              LAMBDA position_accessor :
    IF ~AccessorUnpackOK(position_accessor) THEN Raise(s2, "struct.error")
    ELSE IF ~PyIndexOK(s2.json.accessors, primitives[1].indices.v)
         THEN Raise(s2, "IndexError")
    ELSE Bind(PyGet(s2.json.accessors, primitives[1].indices.v),
              LAMBDA index_accessor :
    IF ~AccessorUnpackOK(index_accessor) THEN Raise(s2, "struct.error")
    ELSE IF primitives[1].mode # 4 THEN Raise(s2, "NotImplementedError")
    ELSE Bind(get_accessor_data(position_accessor), LAMBDA positions :
         Bind(groupby(FirstComponents(get_accessor_data(index_accessor)), 3),
              LAMBDA indices :
    IF \E t \in 1..Len(indices) : \E c \in 1..3 :
          ~PyIndexOK(positions, indices[t][c])
    THEN Raise(s2, "IndexError")
    ELSE [s2 EXCEPT !.ret = find_with_union(PointsOf(positions, indices))]
    )))))))

----------------------------------------------------------------------------
(* The multiprimitive expander *)

\* len(mesh): the keys of a mesh dict
MeshKeys == {"primitives", "name"}

\* f'{name} ({i})'
Suffixed(name, i) == Append(name, i)

\* The meshes list `added` of expand_multiprimitive_mesh: one per secondary
\* primitive, with fresh identities from firstId on
AddedMeshes(mesh, firstId) ==
    [i \in 1..(Len(mesh.primitives) - 1) |->
        [id |-> firstId + i - 1,
         name |-> Suffixed(mesh.name, i - 1),
         primitives |-> <<mesh.primitives[i + 1]>>]]

\* The node loop of expand_multiprimitive_mesh from node n on.  cur is the
\* object the local variable `mesh` is bound to when the loop body starts:
\* the inner "for i, mesh in enumerate(...)" rebinds it.
RECURSIVE RewireNodes(_, _, _, _, _)
RewireNodes(s, n, last, cur, added) ==
    IF n > last THEN s
    ELSE LET node == s.json.nodes[n]
             targets == <<node.mesh.v>> \o [i \in 1..Len(added) |-> added[i].id]
             fresh == [i \in 1..Len(targets) |->
                          [id |-> s.nextId + i - 1,
                           name |-> Suffixed(node.name, i - 1),
                           mesh |-> Ref(targets[i]),
                           hasChildren |-> FALSE,
                           children |-> <<>>]]
             children == [i \in 1..Len(fresh) |-> Ref(fresh[i].id)]
         IN IF node.mesh # Ref(cur) \/ Cardinality(MeshKeys) <= 1
            THEN RewireNodes(s, n + 1, last, cur, added)
            ELSE RewireNodes(
                   [s EXCEPT !.json.nodes =
                                 [@ EXCEPT ![n].mesh = NoLink,
                                           ![n].hasChildren = TRUE,
                                           ![n].children = children] \o fresh,
                             !.nextId = @ + Len(fresh)],
                   n + 1, last, targets[Len(targets)], added)

\* expand_multiprimitive_mesh(mesh_index): the state it leaves, with the
\* identities of the added meshes in ret
expand_multiprimitive_mesh(s0, mesh_index) ==
    LET s1 == node_mesh_reference(s0, TRUE)
        meshes == s1.json.meshes
        m == PyPos(meshes, mesh_index)
        mesh == meshes[m]
        added == AddedMeshes(mesh, s1.nextId)
        s2 == [s1 EXCEPT !.json.meshes =
                             [@ EXCEPT ![m].primitives = <<mesh.primitives[1]>>]
                               \o added,
                         !.nextId = @ + Len(added)]
        s3 == RewireNodes(s2, 1, Len(s2.json.nodes), mesh.id, added)
    IN IF s1.err # "" THEN s1
       ELSE IF ~PyIndexOK(meshes, mesh_index) THEN Raise(s1, "IndexError")
       ELSE IF Len(mesh.primitives) <= 1 THEN [s1 EXCEPT !.ret = <<>>]
       ELSE [s3 EXCEPT !.ret = [i \in 1..Len(added) |-> added[i].id]]

----------------------------------------------------------------------------
(* The mesh splitter *)

\* find(item, items): the first index holding the object itself
find(item, items) ==
    (CHOOSE i \in 1..Len(items) :
        /\ items[i].id = item
        /\ \A j \in 1..(i - 1) : items[j].id # item) - 1

\* The keys of component_indices_map in insertion order: each original vertex
\* index once, in order of first occurrence
RECURSIVE FirstSeen(_, _)
FirstSeen(flat, seen) ==
    IF flat = <<>> THEN seen
    ELSE FirstSeen(Tail(flat),
                   IF \E j \in 1..Len(seen) : seen[j] = Head(flat)
                   THEN seen ELSE Append(seen, Head(flat)))

\* component_indices_map[index]: len(component_indices_map) when index was
\* first seen
LocalIndex(uniq, index) == (CHOOSE j \in 1..Len(uniq) : uniq[j] = index) - 1

\* The values taken at the local index instead of the original one
ComponentValues_local(values, uniq) ==
    [j \in 1..Len(uniq) |-> PyGet(values, j - 1)]

\* component_attribute_values[attribute]: the original value of every vertex
\* of the component, in local order
ComponentValues(values, uniq) ==
    [j \in 1..Len(uniq) |-> PyGet(values, uniq[j])]

\* The body of "for component in components" of split_disconnected_mesh, for
\* mesh m (1-based position), its original primitive and one component.
BuildComponent(s, m, primitive, tri_indices) ==
    Bind(AccessorOf(s, primitive.indices), LAMBDA indices_accessor :
    Bind(accessor_struct(indices_accessor), LAMBDA indices_struct :
    Bind(groupby(FirstComponents(get_accessor_data(indices_accessor)), 3),
         LAMBDA indices_data :
    Bind([a \in 1..Len(primitive.attributes) |->
             AccessorOf(s, primitive.attributes[a].acc)],
         LAMBDA attribute_accessors :
    Bind([a \in 1..Len(attribute_accessors) |->
             get_accessor_data(attribute_accessors[a])],
         LAMBDA attribute_values :
    Bind(Flatten([k \in 1..Len(tri_indices) |-> indices_data[tri_indices[k] + 1]]),
         LAMBDA flat :
    Bind(FirstSeen(flat, <<>>), LAMBDA uniq :
    Bind([j \in 1..Len(flat) |-> <<LocalIndex(uniq, flat[j])>>],
         LAMBDA component_indices_list :
    IF \E a \in 1..Len(attribute_values) : \E j \in 1..Len(uniq) :
          ~PyIndexOK(attribute_values[a], uniq[j])
    THEN Raise(s, "IndexError")
    ELSE IF ~PackOK(indices_struct, component_indices_list)
    THEN Raise(s, "struct.error")
    ELSE [s EXCEPT
            !.json.accessors =
                @ \o <<[indices_accessor EXCEPT
                          !.id = s.nextId,
                          !.count = Len(component_indices_list),
                          !.data = pack_all(indices_struct,
                                            component_indices_list)]>>
                  \o [a \in 1..Len(attribute_accessors) |->
                        [attribute_accessors[a] EXCEPT
                           !.id = s.nextId + a,
                           !.count = Len(uniq),
                           !.data = pack_all(
                                       accessor_struct(attribute_accessors[a]),
                                       ComponentValues(attribute_values[a], uniq))]],
            !.json.meshes[m].primitives =
                Append(@, [primitive EXCEPT
                             !.pid = s.nextId + Len(attribute_accessors) + 1,
                             !.attributes =
                                 [a \in 1..Len(attribute_accessors) |->
                                     [name |-> primitive.attributes[a].name,
                                      acc |-> Ref(s.nextId + a)]],
                             !.indices = Ref(s.nextId)]),
            !.nextId = @ + Len(attribute_accessors) + 2]
    ))))))))

RECURSIVE BuildComponents(_, _, _, _)
BuildComponents(s, m, primitive, components) ==
    IF s.err # "" \/ components = <<>> THEN s
    ELSE BuildComponents(BuildComponent(s, m, primitive, Head(components)),
                         m, primitive, Tail(components))

\* mesh["primitives"].pop(): the last primitive instead of the first
PopLast(primitives) == SubSeq(primitives, 1, Len(primitives) - 1)

\* mesh["primitives"].pop(0)
PopFirst(primitives) == Tail(primitives)

RECURSIVE split_disconnected_mesh(_, _)
RECURSIVE SplitAdded(_, _)

\* for added in expand_multiprimitive_mesh(...): split_disconnected_mesh(find(...))
SplitAdded(s, added) ==
    IF s.err # "" \/ added = <<>> THEN s
    ELSE SplitAdded(
             split_disconnected_mesh(s, find(Head(added), s.json.meshes)),
             Tail(added))

\* split_disconnected_mesh(mesh_index): the state it leaves
split_disconnected_mesh(s0, mesh_index) ==
    IF s0.err # "" THEN s0
    ELSE IF ~PyIndexOK(s0.json.meshes, mesh_index) THEN Raise(s0, "IndexError")
    ELSE
    Bind(PyPos(s0.json.meshes, mesh_index), LAMBDA m :
    Bind(IF Len(s0.json.meshes[m].primitives) > 1
         THEN Bind(expand_multiprimitive_mesh(s0, mesh_index),
                   LAMBDA e : SplitAdded(e, e.ret))
         ELSE s0,
         LAMBDA sA :
    IF sA.err # "" THEN sA
    ELSE Bind(_find_connected_components(sA, mesh_index), LAMBDA sB :
    IF sB.err # "" THEN sB
    ELSE Bind(accessor_reference(
                  accessor_data(node_mesh_reference(sB, TRUE), TRUE), TRUE),
              LAMBDA sC :
    IF sC.err # "" THEN sC
    ELSE Bind(sC.json.meshes[m].primitives[1], LAMBDA primitive :
    IF \E a \in 1..Len(primitive.attributes) :
          ~AccessorUnpackOK(AccessorOf(sC, primitive.attributes[a].acc))
    THEN Raise(sC, "struct.error")
    ELSE Bind(BuildComponents(sC, m, primitive, sB.ret), LAMBDA sD :
    IF sD.err # "" THEN sD
    ELSE [expand_multiprimitive_mesh(
              [sD EXCEPT !.json.meshes[m].primitives = PopFirst(@)],
              mesh_index)
          EXCEPT !.ret = <<>>, !.components = sB.ret]
    ))))))

----------------------------------------------------------------------------
(* Gltf.write *)

\* The buffer loop of write: every buffer holding data is written to
\* fpath.parent / uri and loses its data.  sameDir: fpath.parent is
\* inpath.parent, so the side files that are read back are the ones written.
FlushBuffers(s, sameDir) ==
    LET bufs == s.json.buffers
        held == {b \in 1..Len(bufs) : bufs[b].hasData}
        names == [b \in 1..Len(bufs) |-> IF b \in held THEN <<bufs[b].uri>> ELSE <<>>]
        disk == [u \in DOMAIN s.files |->
                    IF sameDir /\ \E b \in held : bufs[b].uri = u
                    THEN bufs[CHOOSE b \in held :
                                 /\ bufs[b].uri = u
                                 /\ \A c \in held : bufs[c].uri = u => c <= b].data
                    ELSE s.files[u]]
    IN [s EXCEPT
          !.files = disk,
          !.written = @ \o Flatten(names) \o <<"json">>,
          !.json.buffers = [b \in 1..Len(bufs) |->
                               [bufs[b] EXCEPT !.hasData = FALSE, !.data = <<>>]]]

write(s, sameDir) ==
    LET s1 == accessor_reference(
                  accessor_data(node_mesh_reference(s, FALSE), FALSE), FALSE)
    IN IF s1.err # "" THEN s1 ELSE FlushBuffers(s1, sameDir)

\* write, statement by statement.
\* Only the two link conversions, without the repack
WriteTransforms_links_only(s) ==
    accessor_reference(node_mesh_reference(s, FALSE), FALSE)

\* The three assignments that open write: every representation back to the
\* form of the file
WriteTransforms(s) ==
    accessor_reference(accessor_data(node_mesh_reference(s, FALSE), FALSE), FALSE)

\* The buffers the loop of write has still to visit and will not skip
PendingBuffers(s) ==
    {b \in 1..Len(s.json.buffers) : s.json.buffers[b].hasData}

\* One pass of the buffer loop of write that does not `continue`: the next
\* buffer holding data is written to fpath.parent / uri and loses its data
WriteBufferFile(s, sameDir) ==
    Bind(SetMin(PendingBuffers(s)), LAMBDA b :
    [s EXCEPT
       !.files = IF sameDir /\ s.json.buffers[b].uri \in DOMAIN s.files
                 THEN [@ EXCEPT ![s.json.buffers[b].uri] = s.json.buffers[b].data]
                 ELSE @,
       !.written = Append(@, s.json.buffers[b].uri),
       !.json.buffers[b].hasData = FALSE,
       !.json.buffers[b].data = <<>>])

\* json.dump(self.json, f) into fpath
WriteDocumentFile(s) == [s EXCEPT !.written = Append(@, "json")]

----------------------------------------------------------------------------
(* main: process, then write *)

\* The mesh index process hands to split_disconnected_mesh
ProcessTarget == 458

\* process(gltf), splitting the mesh at mesh_index
process(s, mesh_index) ==
    split_disconnected_mesh(
        accessor_data(node_mesh_reference(s, TRUE), TRUE), mesh_index)

----------------------------------------------------------------------------
(* The state machine: the Gltf object and the operations on it *)

\* The Gltf object as the operators above take it
Self ==
    [json |-> json,
     nmr |-> _node_mesh_reference,
     ad |-> _accessor_data,
     ar |-> _accessor_reference,
     files |-> files,
     written |-> written,
     err |-> err,
     nextId |-> nextId,
     ret |-> <<>>,
     components |-> <<>>]

\* The link entries of every node, and of every primitive (in mesh order)
NodeLinks(j) ==
    [n \in 1..Len(j.nodes) |->
        [mesh |-> j.nodes[n].mesh, children |-> j.nodes[n].children]]

PrimLinks(j) ==
    Flatten([m \in 1..Len(j.meshes) |->
        [p \in 1..Len(j.meshes[m].primitives) |->
            [pid |-> j.meshes[m].primitives[p].pid,
             attributes |-> j.meshes[m].primitives[p].attributes,
             indices |-> j.meshes[m].primitives[p].indices]]])

\* Some node that had a mesh link lost it (the expander rewired it).
Rewired(before, after) ==
    \E n \in 1..Len(before.nodes) :
        before.nodes[n].mesh.k # "none" /\ after.nodes[n].mesh.k = "none"

\* Where the document is in the materialize / repack / flush / materialize
\* round trip
NextStage(s, name, arg) ==
    CASE s.err # "" -> snap.stage
      [] name = "write" ->
            IF snap.stage = "loaded" /\ ~_accessor_data THEN "loaded"
            ELSE IF arg = 1 /\ snap.stage \in {"materialized", "repacked"}
                 THEN "flushed"
            ELSE "other"
      [] ~_accessor_data /\ s.ad ->
            IF snap.stage = "loaded" THEN "materialized"
            ELSE IF snap.stage = "flushed" THEN "rematerialized"
            ELSE "other"
      [] _accessor_data /\ ~s.ad ->
            IF snap.stage = "materialized" THEN "repacked" ELSE "other"
      [] OTHER -> snap.stage

Payloads(j) == [a \in 1..Len(j.accessors) |-> j.accessors[a].data]

\* The operations whose effect the claims compare with the document before
Structural == {"expand_multiprimitive_mesh", "split_disconnected_mesh"}

NoPre == [json |-> <<>>, nmr |-> FALSE, ad |-> FALSE, ar |-> FALSE]

\* The history the claims read, after an operation that leaves s.
\* nm and acc keep the integer links as they were when the links were last
\* dereferenced; nm.valid: no node was rewired since.
NextSnap(s, name, arg) ==
    LET stage == NextStage(s, name, arg)
    IN [snap EXCEPT
          !.pre = IF name \in Structural
                  THEN [json |-> json, nmr |-> _node_mesh_reference,
                        ad |-> _accessor_data, ar |-> _accessor_reference]
                  ELSE NoPre,
          !.components = s.components,
          !.nm = IF ~_node_mesh_reference /\ s.nmr
                 THEN [links |-> NodeLinks(json),
                       meshes |-> Len(json.meshes),
                       valid |-> ~Rewired(json, s.json),
                       round |-> TRUE]
                 ELSE [@ EXCEPT !.valid = @ /\ ~Rewired(json, s.json)],
          !.acc = IF ~_accessor_reference /\ s.ar
                  THEN [links |-> PrimLinks(json),
                        accessors |-> Len(json.accessors),
                        round |-> TRUE]
                  ELSE @,
          !.reverse = _accessor_data /\ ~s.ad /\ s.err = "",
          !.stage = stage,
          !.payload = IF snap.stage = "loaded" /\ stage = "materialized"
                      THEN Payloads(s.json) ELSE snap.payload]

Commit(s, name, arg) ==
    /\ json' = s.json
    /\ _node_mesh_reference' = s.nmr
    /\ _accessor_data' = s.ad
    /\ _accessor_reference' = s.ar
    /\ files' = s.files
    /\ written' = s.written
    /\ err' = s.err
    /\ nextId' = s.nextId
    /\ op' = [name |-> name, arg |-> arg]
    /\ ret' = s.ret
    /\ snap' = NextSnap(s, name, arg)

Bit(b) == IF b THEN 1 ELSE 0

MeshIndices == 0..(Len(json.meshes) - 1)

SetNodeMeshReference ==
    /\ err = ""
    /\ \E mode \in BOOLEAN :
          Commit(node_mesh_reference(Self, mode), "node_mesh_reference", Bit(mode))

SetAccessorData ==
    /\ err = ""
    /\ \E data \in BOOLEAN :
          Commit(accessor_data(Self, data), "accessor_data", Bit(data))

SetAccessorReference ==
    /\ err = ""
    /\ \E reference \in BOOLEAN :
          Commit(accessor_reference(Self, reference), "accessor_reference",
                 Bit(reference))

ExpandMultiprimitiveMesh ==
    /\ err = ""
    /\ \E mesh_index \in MeshIndices :
          Commit(expand_multiprimitive_mesh(Self, mesh_index),
                 "expand_multiprimitive_mesh", mesh_index)

SplitDisconnectedMesh ==
    /\ err = ""
    /\ Len(json.accessors) < MaxAccessors
    /\ \E mesh_index \in MeshIndices :
          Commit(split_disconnected_mesh(Self, mesh_index),
                 "split_disconnected_mesh", mesh_index)

FindConnectedComponents ==
    /\ err = ""
    /\ \E mesh_index \in MeshIndices :
          Commit(_find_connected_components(Self, mesh_index),
                 "_find_connected_components", mesh_index)

Write ==
    /\ err = ""
    /\ written = <<>>
    /\ \E sameDir \in BOOLEAN :
          Commit(write(Self, sameDir), "write", Bit(sameDir))

----------------------------------------------------------------------------
(* Documents: what Gltf.__init__ loads *)

Accessor(id, bufferView, byteOffset, count, type, componentType) ==
    [id |-> id, bufferView |-> bufferView, byteOffset |-> byteOffset,
     count |-> count, type |-> type, componentType |-> componentType,
     hasData |-> FALSE, data |-> <<>>]

BufferView(buffer, byteOffset, byteLength) ==
    [buffer |-> buffer, byteOffset |-> byteOffset, byteLength |-> byteLength,
     hasData |-> FALSE, data |-> <<>>]

Buffer(uri, byteLength) ==
    [uri |-> uri, byteLength |-> byteLength, hasData |-> FALSE, data |-> <<>>]

Primitive(pid, position, indices) ==
    [pid |-> pid, mode |-> 4,
     attributes |-> <<[name |-> "POSITION", acc |-> Idx(position)]>>,
     indices |-> Idx(indices)]

Mesh(id, primitives) == [id |-> id, name |-> <<id>>, primitives |-> primitives]

Node(id, mesh, hasChildren, children) ==
    [id |-> id, name |-> <<id>>, mesh |-> mesh, hasChildren |-> hasChildren,
     children |-> [i \in 1..Len(children) |-> Idx(children[i])]]

Document(nodes, meshes, accessors, bufferViews, buffers) ==
    [nodes |-> nodes, meshes |-> meshes, accessors |-> accessors,
     bufferViews |-> bufferViews, buffers |-> buffers]

\* The state Gltf.__init__ leaves for a document and its side files
Loaded(doc, disk, input) ==
    /\ json = doc
    /\ _node_mesh_reference = FALSE
    /\ _accessor_data = FALSE
    /\ _accessor_reference = FALSE
    /\ files = disk
    /\ written = <<>>
    /\ err = ""
    /\ nextId = 100
    /\ op = [name |-> "__init__", arg |-> 0]
    /\ ret = <<>>
    /\ snap = [pre |-> NoPre,
               components |-> <<>>,
               nm |-> [links |-> <<>>, meshes |-> 0, valid |-> TRUE, round |-> FALSE],
               acc |-> [links |-> <<>>, accessors |-> 0, round |-> FALSE],
               reverse |-> FALSE,
               stage |-> "loaded",
               payload |-> <<>>,
               input |-> input]

\* Six vertices at distinct positions, and two triangles that share none.
ScenePositions == [v \in 1..6 |-> <<v - 1, 0, 0>>]
SceneIndices == <<0, 1, 2, 3, 4, 5>>

\* Accessor 0: the positions; accessor 1: both triangles; accessor 2: the first.
SceneAccessors ==
    <<Accessor(10, 0, 0, 6, "VEC3", 5121),
      Accessor(11, 1, 0, 6, "SCALAR", 5121),
      Accessor(12, 1, 0, 3, "SCALAR", 5121)>>

\* One buffer holding both views, or one buffer per view
SceneLayout(nBuffers) ==
    IF nBuffers = 1
    THEN [bufferViews |-> <<BufferView(0, 0, 18), BufferView(0, 18, 6)>>,
          buffers |-> <<Buffer("g.bin", 24)>>,
          disk |-> [u \in {"g.bin"} |-> Flatten(ScenePositions) \o SceneIndices]]
    ELSE [bufferViews |-> <<BufferView(0, 0, 18), BufferView(1, 0, 6)>>,
          buffers |-> <<Buffer("p.bin", 18), Buffer("i.bin", 6)>>,
          disk |-> [u \in {"p.bin", "i.bin"} |->
                       IF u = "p.bin" THEN Flatten(ScenePositions)
                       ELSE SceneIndices]]

SceneKinds == {"shared", "orphan", "single"}

\* shared: two nodes reference one mesh of two primitives.
\* orphan: a mesh of two primitives that no node references, and a node with
\*         a mesh and a child.
\* single: one node, one mesh, one primitive of two disconnected triangles.
SceneNodes(kind) ==
    CASE kind = "shared" ->
            <<Node(30, NoLink, TRUE, <<1, 2>>), Node(31, Idx(0), FALSE, <<>>),
              Node(32, Idx(0), FALSE, <<>>)>>
      [] kind = "orphan" ->
            <<Node(30, Idx(1), TRUE, <<1>>), Node(31, NoLink, FALSE, <<>>)>>
      [] kind = "single" -> <<Node(30, Idx(0), FALSE, <<>>)>>

SceneMeshes(kind) ==
    CASE kind = "shared" ->
            <<Mesh(20, <<Primitive(40, 0, 2), Primitive(41, 0, 1)>>)>>
      [] kind = "orphan" ->
            <<Mesh(20, <<Primitive(40, 0, 2), Primitive(41, 0, 2)>>),
              Mesh(21, <<Primitive(42, 0, 2)>>)>>
      [] kind = "single" -> <<Mesh(20, <<Primitive(40, 0, 1)>>)>>

\* The documents the editor is started on: each kind with one buffer per
\* view, and one with both views in one buffer.
Scenes == {<<"shared", 2>>, <<"orphan", 2>>, <<"shared", 1>>}

Init ==
    \E kind \in SceneKinds, nBuffers \in {1, 2} :
        /\ <<kind, nBuffers>> \in Scenes
        /\ Loaded(Document(SceneNodes(kind), SceneMeshes(kind), SceneAccessors,
                           SceneLayout(nBuffers).bufferViews,
                           SceneLayout(nBuffers).buffers),
                  SceneLayout(nBuffers).disk,
                  <<>>)

Next ==
    \/ SetNodeMeshReference
    \/ SetAccessorData
    \/ SetAccessorReference
    \/ ExpandMultiprimitiveMesh
    \/ SplitDisconnectedMesh
    \/ Write

Spec == Init /\ [][Next]_vars

----------------------------------------------------------------------------
(* The splitter on one primitive: triangle lists and vertex positions drawn  *)
(* from small sets.                                                          *)

TriChoices == {<<0, 1, 2>>, <<3, 4, 5>>, <<2, 3, 4>>}

RECURSIVE SeqsUpTo(_, _)
SeqsUpTo(S, n) ==
    IF n = 0 THEN {<<>>}
    ELSE LET shorter == SeqsUpTo(S, n - 1)
         IN shorter \cup {Append(q, x) : q \in shorter, x \in S}

\* none:    six vertices at six different positions
\* value:   vertex 3 lies exactly where vertex 0 lies
\* partial: vertex 3 shares only its first coordinate with vertex 0
Welds == {"none", "value", "partial"}

WeldedPositions(weld) ==
    [v \in 1..6 |->
        IF v = 4 /\ weld = "value" THEN <<0, 0, 0>>
        ELSE IF v = 4 /\ weld = "partial" THEN <<0, 1, 0>>
        ELSE <<v - 1, 0, 0>>]

\* [(0,1,2), (2,3,4), (10,11,12)] over thirteen vertices at different positions
ExampleTris == <<<<0, 1, 2>>, <<2, 3, 4>>, <<10, 11, 12>>>>
ExamplePositions == [v \in 1..13 |-> <<v - 1, 0, 0>>]

\* One node, one mesh, one triangle-list primitive over the given geometry
GeometryDocument(tris, pos) ==
    Document(<<Node(30, Idx(0), FALSE, <<>>)>>,
             <<Mesh(20, <<Primitive(40, 0, 1)>>)>>,
             <<Accessor(10, 0, 0, Len(pos), "VEC3", 5121),
               Accessor(11, 1, 0, 3 * Len(tris), "SCALAR", 5121)>>,
             <<BufferView(0, 0, 3 * Len(pos)), BufferView(1, 0, 3 * Len(tris))>>,
             <<Buffer("p.bin", 3 * Len(pos)), Buffer("i.bin", 3 * Len(tris))>>)

GeometryDisk(tris, pos) ==
    [u \in {"p.bin", "i.bin"} |->
        IF u = "p.bin" THEN Flatten(pos) ELSE Flatten(tris)]

InitSplit ==
    \/ \E tris \in SeqsUpTo(TriChoices, MaxTris), weld \in Welds :
          Loaded(GeometryDocument(tris, WeldedPositions(weld)),
                 GeometryDisk(tris, WeldedPositions(weld)),
                 [tris |-> tris, pos |-> WeldedPositions(weld)])
    \/ Loaded(GeometryDocument(ExampleTris, ExamplePositions),
              GeometryDisk(ExampleTris, ExamplePositions),
              [tris |-> ExampleTris, pos |-> ExamplePositions])

NextSplit ==
    \/ FindConnectedComponents
    \/ SplitDisconnectedMesh

SpecSplit == InitSplit /\ [][NextSplit]_vars

----------------------------------------------------------------------------
(* The materializer on its own: byte layouts drawn from small sets.          *)

PayloadLens == {3, 4}

\* The accessors of one view: one or two payloads
ViewChoices == {<<n>> : n \in PayloadLens}
                 \cup {<<n, k>> : n \in PayloadLens, k \in PayloadLens}

LayoutChoices == SeqsUpTo(ViewChoices, MaxViews) \ {<<>>}

RECURSIVE Sum(_)
Sum(q) == IF q = <<>> THEN 0 ELSE Head(q) + Sum(Tail(q))

\* The byte length of a view in the file: every payload is followed by gap
\* unused bytes.
ViewLength(lens, gap) == Sum(lens) + gap * Len(lens)

\* View v lies in buffer (v - 1) % nBuffers, after the earlier views of that
\* buffer.
ViewBuffer(v, nBuffers) == (v - 1) % nBuffers

ViewOffset(layout, v, gap, nBuffers) ==
    Sum([w \in 1..(v - 1) |->
            IF ViewBuffer(w, nBuffers) = ViewBuffer(v, nBuffers)
            THEN ViewLength(layout[w], gap) ELSE 0])

BufferLength(layout, b, gap, nBuffers) ==
    Sum([w \in 1..Len(layout) |->
            IF ViewBuffer(w, nBuffers) = b THEN ViewLength(layout[w], gap) ELSE 0])

LayoutAccessors(layout, gap) ==
    Flatten([v \in 1..Len(layout) |->
        [a \in 1..Len(layout[v]) |->
            Accessor(10 * v + a, v - 1,
                     Sum(SubSeq(layout[v], 1, a - 1)) + gap * (a - 1),
                     layout[v][a], "SCALAR", 5121)]])

Reverse(q) == [i \in 1..Len(q) |-> q[Len(q) + 1 - i]]

BufferUri(b) == IF b = 0 THEN "0.bin" ELSE "1.bin"

LayoutDocument(layout, gap, nBuffers, reversed) ==
    Document(<<>>, <<>>,
             IF reversed THEN Reverse(LayoutAccessors(layout, gap))
             ELSE LayoutAccessors(layout, gap),
             [v \in 1..Len(layout) |->
                 BufferView(ViewBuffer(v, nBuffers),
                            ViewOffset(layout, v, gap, nBuffers),
                            ViewLength(layout[v], gap))],
             [b \in 1..nBuffers |->
                 Buffer(BufferUri(b - 1), BufferLength(layout, b - 1, gap, nBuffers))])

\* Every byte of a side file differs from the others of that file.
LayoutDisk(layout, gap, nBuffers) ==
    [u \in {BufferUri(b) : b \in 0..(nBuffers - 1)} |->
        LET b == CHOOSE c \in 0..(nBuffers - 1) : BufferUri(c) = u
        IN [i \in 1..BufferLength(layout, b, gap, nBuffers) |-> 100 * b + i]]

InitPack ==
    \E layout \in LayoutChoices, gap \in {0, 1}, nBuffers \in {1, 2},
       reversed \in BOOLEAN :
        /\ nBuffers <= Len(layout)
        /\ Loaded(LayoutDocument(layout, gap, nBuffers, reversed),
                  LayoutDisk(layout, gap, nBuffers),
                  <<>>)

NextPack ==
    \/ SetAccessorData
    \/ Write

SpecPack == InitPack /\ [][NextPack]_vars

----------------------------------------------------------------------------
(* Documents with one index that may not resolve.                            *)

LinkKinds == {"mesh", "child", "attribute", "indices", "bufferView", "buffer"}

\* Every target array holds two elements: 0 and 1 resolve.
LinkValues == {-3, -1, 0, 1, 2}

LinkDocument(kind, value) ==
    LET at(k, good) == IF kind = k THEN value ELSE good
    IN Document(
         <<Node(30, Idx(at("mesh", 0)), TRUE, <<at("child", 1)>>),
           Node(31, Idx(1), FALSE, <<>>)>>,
         <<Mesh(20, <<Primitive(40, at("attribute", 0), at("indices", 1))>>),
           Mesh(21, <<Primitive(41, 0, 1)>>)>>,
         <<Accessor(10, at("bufferView", 0), 0, 3, "VEC3", 5121),
           Accessor(11, 1, 0, 3, "SCALAR", 5121)>>,
         <<BufferView(at("buffer", 0), 0, 9), BufferView(1, 0, 3)>>,
         <<Buffer("p.bin", 9), Buffer("i.bin", 3)>>)

LinkDisk ==
    [u \in {"p.bin", "i.bin"} |->
        IF u = "p.bin" THEN <<0, 0, 0, 1, 0, 0, 2, 0, 0>> ELSE <<0, 1, 2>>]

InitLinks ==
    \E kind \in LinkKinds, value \in LinkValues :
        Loaded(LinkDocument(kind, value), LinkDisk,
               [kind |-> kind, value |-> value])

NextLinks ==
    \/ SetNodeMeshReference
    \/ SetAccessorData
    \/ SetAccessorReference

SpecLinks == InitLinks /\ [][NextLinks]_vars


----------------------------------------------------------------------------
(* The edit flow of main: Gltf(inpath), process(gltf), gltf.write(outpath),  *)
(* with write taken one statement at a time.  op.name is the statement that  *)
(* ran last; from the start of write on, op.arg tells whether outpath lies   *)
(* in the directory of inpath.                                               *)

\* The mesh indices the edit is run with: the one of the source, and two
\* that small documents have
ProcessTargets == {0, 1, ProcessTarget}

WriteSteps == {"write.transforms", "write.buffer"}

Process ==
    /\ err = ""
    /\ op.name = "__init__"
    /\ \E mesh_index \in ProcessTargets :
          Commit(process(Self, mesh_index), "process", mesh_index)

WriteBegin ==
    /\ err = ""
    /\ op.name = "process"
    /\ \E sameDir \in BOOLEAN :
          Commit(WriteTransforms(Self), "write.transforms", Bit(sameDir))

WriteBuffer ==
    /\ err = ""
    /\ op.name \in WriteSteps
    /\ PendingBuffers(Self) # {}
    /\ Commit(WriteBufferFile(Self, op.arg = 1), "write.buffer", op.arg)

WriteDocument ==
    /\ err = ""
    /\ op.name \in WriteSteps
    /\ PendingBuffers(Self) = {}
    /\ Commit(WriteDocumentFile(Self), "write.document", op.arg)

InitMain ==
    \/ \E kind \in SceneKinds, nBuffers \in {1, 2} :
          Loaded(Document(SceneNodes(kind), SceneMeshes(kind), SceneAccessors,
                          SceneLayout(nBuffers).bufferViews,
                          SceneLayout(nBuffers).buffers),
                 SceneLayout(nBuffers).disk,
                 <<>>)
    \/ InitSplit

NextMain ==
    \/ Process
    \/ WriteBegin
    \/ WriteBuffer
    \/ WriteDocument

SpecMain == InitMain /\ [][NextMain]_vars

----------------------------------------------------------------------------
(* Properties.  What the formulas read of the history:                       *)
(*   op            the operation that produced the state                     *)
(*   snap.pre      the document before a structural operation                *)
(*   snap.nm/acc   the integer links when they were last dereferenced        *)

\* The 1-based position a link designates in target, in either form
LinkPos(target, link) ==
    IF link.k = "idx" THEN PyPos(target, link.v)
    ELSE IdIndex(target, link.v) + 1

PidsOf(j) == {PrimLinks(j)[q].pid : q \in 1..Len(PrimLinks(j))}

Elems(q) == {q[i] : i \in 1..Len(q)}

\* The unpacked values of the accessor a link of document j designates
ValuesAt(j, link) == get_accessor_data(j.accessors[LinkPos(j.accessors, link)])

\* ... as a flat list of integers, for an indices accessor
IndicesAt(j, link) ==
    [e \in 1..Len(ValuesAt(j, link)) |-> ValuesAt(j, link)[e][1]]

----------------------------------------------------------------------------
(* C1: dereference, append, reindex restores the original integers *)

\* C1: when the node links were dereferenced, meshes and nodes were only
\* appended (no node rewired), and the links are indices again, every node
\* that existed holds the integers it held before; likewise every primitive
\* that still exists holds its original accessor indices after accessors were
\* appended while dereferenced.
C1_RoundTripRestoresIndices ==
    /\ (err = "" /\ ~_node_mesh_reference /\ snap.nm.round /\ snap.nm.valid) =>
          /\ Len(json.nodes) >= Len(snap.nm.links)
          /\ \A n \in 1..Len(snap.nm.links) :
                NodeLinks(json)[n] = snap.nm.links[n]
    /\ (err = "" /\ ~_accessor_reference /\ snap.acc.round) =>
          \A i \in 1..Len(snap.acc.links) :
             \A q \in 1..Len(PrimLinks(json)) :
                PrimLinks(json)[q].pid = snap.acc.links[i].pid =>
                   PrimLinks(json)[q] = snap.acc.links[i]

\* Both round trips completed, with a mesh and accessors appended in between
\* and a node that has both a mesh and a child.
C1_Witness ==
    /\ err = ""
    /\ ~_node_mesh_reference /\ snap.nm.round /\ snap.nm.valid
    /\ ~_accessor_reference /\ snap.acc.round
    /\ Len(json.meshes) > snap.nm.meshes
    /\ Len(json.accessors) > snap.acc.accessors
    /\ \E n \in 1..Len(snap.nm.links) :
          /\ snap.nm.links[n].mesh.k = "idx"
          /\ snap.nm.links[n].mesh.v > 0
          /\ snap.nm.links[n].children # <<>>

----------------------------------------------------------------------------
(* C2: connected components over triangles *)

Found == op.name = "_find_connected_components" /\ err = "" /\ Len(json.accessors) = 2

\* Two triangles (1-based) have a vertex at exactly the same position
Touching(tris, pos, t, u) ==
    \E c \in 1..3, d \in 1..3 : pos[tris[t][c] + 1] = pos[tris[u][d] + 1]

\* The triangles reachable from those of set through chains of touching ones
RECURSIVE Chained(_, _, _)
Chained(tris, pos, set) ==
    LET more == set \cup {u \in 1..Len(tris) :
                             \E t \in set : Touching(tris, pos, t, u)}
    IN IF more = set THEN set ELSE Chained(tris, pos, more)

\* C2: the groups returned for a triangle list partition the triangle indices
\* 0..n-1, and two triangles are in one group exactly when a chain of
\* triangles sharing a vertex position links them; [(0,1,2),(2,3,4),
\* (10,11,12)] gives two groups, of sizes 2 and 1.
C2_ComponentsPartitionTriangles ==
    Found =>
       LET tris == snap.input.tris
           pos == snap.input.pos
           n == Len(tris)
           group(t) == {g \in 1..Len(ret) : t \in Elems(ret[g])}
       IN /\ \A g \in 1..Len(ret) :
                /\ ret[g] # <<>>
                /\ Elems(ret[g]) \subseteq 0..(n - 1)
                /\ Cardinality(Elems(ret[g])) = Len(ret[g])
          /\ \A t \in 0..(n - 1) : Cardinality(group(t)) = 1
          /\ \A t \in 0..(n - 1), u \in 0..(n - 1) :
                (group(t) = group(u)) <=> (u + 1 \in Chained(tris, pos, {t + 1}))
          /\ tris = ExampleTris =>
                /\ Len(ret) = 2
                /\ {Len(ret[g]) : g \in 1..Len(ret)} = {1, 2}
                /\ group(0) = group(1)

\* One group of three triangles, two of which touch only through the third
C2_Witness ==
    /\ Found
    /\ Len(ret) = 1
    /\ Len(ret[1]) = 3
    /\ \E t \in 1..3, u \in 1..3 :
          ~Touching(snap.input.tris, snap.input.pos, t, u)

----------------------------------------------------------------------------
(* C3, C4: the result of a split *)

\* A split of mesh op.arg, which had one primitive, completed
SplitOne ==
    /\ op.name = "split_disconnected_mesh"
    /\ err = ""
    /\ Len(snap.pre.json.meshes[op.arg + 1].primitives) = 1

\* The primitive built for component c (1-based) of the split: the first stays
\* in the mesh, each further one is in the mesh appended for it.
ComponentPrimitive(c) ==
    IF c = 1 THEN json.meshes[op.arg + 1].primitives[1]
    ELSE json.meshes[Len(snap.pre.json.meshes) + c - 1].primitives[1]

\* C3 (as stated): after a successful split the mesh no longer contains the
\* original primitive and contains one new primitive per connected component
\* (two for two disjoint triangles), and exactly one new primitive when the
\* original had zero or one component.
C3_SplitKeepsComponentsInMesh ==
    SplitOne =>
       LET k == Len(snap.components)
           prims == json.meshes[op.arg + 1].primitives
       IN /\ \A p \in 1..Len(prims) : prims[p].pid \notin PidsOf(snap.pre.json)
          /\ Len(prims) = IF k <= 1 THEN 1 ELSE k

\* C3 (amended): after a successful split the original primitive is gone and
\* one new primitive was built per component; the mesh keeps only the first
\* (none when there is no component) and every further one is the only
\* primitive of a mesh appended for it; for two disjoint triangles the mesh
\* and one appended mesh hold one primitive each, of three vertices and
\* indices [0, 1, 2].
C3_SplitMovesComponentsToMeshes ==
    SplitOne =>
       LET k == Len(snap.components)
           before == snap.pre.json
           prims == json.meshes[op.arg + 1].primitives
       IN /\ \A q \in 1..Len(PrimLinks(json)) :
                PrimLinks(json)[q].pid # before.meshes[op.arg + 1].primitives[1].pid
          /\ Len(prims) = IF k = 0 THEN 0 ELSE 1
          /\ Len(json.meshes) = Len(before.meshes) + (IF k = 0 THEN 0 ELSE k - 1)
          /\ Cardinality(PidsOf(json) \ PidsOf(before)) = k
          /\ \A c \in 1..k :
                /\ ComponentPrimitive(c).pid \notin PidsOf(before)
                /\ c > 1 => Len(json.meshes[Len(before.meshes) + c - 1].primitives) = 1
          /\ (k = 2 /\ Len(snap.components[1]) = 1 /\ Len(snap.components[2]) = 1) =>
                \A c \in 1..2 :
                   /\ IndicesAt(json, ComponentPrimitive(c).indices) = <<0, 1, 2>>
                   /\ Len(ValuesAt(json, Attribute(ComponentPrimitive(c), "POSITION"))) = 3

\* Two disjoint triangles were split: the second one's primitive is in a mesh
\* of its own
C3_Witness ==
    /\ SplitOne
    /\ Len(snap.components) = 2
    /\ Len(snap.components[1]) = 1 /\ Len(snap.components[2]) = 1
    /\ Len(json.meshes) = Len(snap.pre.json.meshes) + 1
    /\ Len(json.meshes[op.arg + 1].primitives) = 1

\* The original vertex indices of component c, three per triangle, in order
ComponentFlat(c) ==
    LET original == snap.pre.json.meshes[op.arg + 1].primitives[1]
        accessor == json.accessors[LinkPos(snap.pre.json.accessors,
                                           original.indices)]
        all == [e \in 1..Len(get_accessor_data(accessor)) |->
                   get_accessor_data(accessor)[e][1]]
    IN Flatten([t \in 1..Len(snap.components[c]) |->
                   SubSeq(all, 3 * snap.components[c][t] + 1,
                          3 * snap.components[c][t] + 3)])

\* The position, in the accessors, of the original primitive's attribute a
OriginalAttribute(a) ==
    LET link == snap.pre.json.meshes[op.arg + 1].primitives[1].attributes[a].acc
    IN LinkPos(snap.pre.json.accessors, link)

\* C4: for every component, the new indices accessor holds three entries per
\* triangle, the local indices are 0..v-1 handed out in order of first
\* occurrence, v is the count of every new attribute accessor, and each new
\* attribute value at a local index equals the original value at the
\* original index.
C4_ComponentsAreRenumbered ==
    SplitOne =>
       \A c \in 1..Len(snap.components) :
          LET prim == ComponentPrimitive(c)
              flat == ComponentFlat(c)
              loc == IndicesAt(json, prim.indices)
              v == Cardinality(Elems(flat))
          IN /\ Len(loc) = 3 * Len(snap.components[c])
             /\ json.accessors[LinkPos(json.accessors, prim.indices)].count = Len(loc)
             /\ Elems(loc) = 0..(v - 1)
             /\ \A j \in 1..Len(loc) :
                   loc[j] <= Cardinality({loc[i] : i \in 1..(j - 1)})
             /\ \A i \in 1..Len(loc), j \in 1..Len(loc) :
                   (flat[i] = flat[j]) <=> (loc[i] = loc[j])
             /\ \A a \in 1..Len(prim.attributes) :
                   LET new == json.accessors[LinkPos(json.accessors,
                                                     prim.attributes[a].acc)]
                       old == json.accessors[OriginalAttribute(a)]
                   IN /\ new.count = v
                      /\ Len(get_accessor_data(new)) = v
                      /\ \A j \in 1..Len(loc) :
                            get_accessor_data(new)[loc[j] + 1] =
                               PyGet(get_accessor_data(old), flat[j])

\* A component of two triangles that share vertices and do not start at
\* vertex 0: local indices differ from the original ones and repeat
C4_Witness ==
    /\ SplitOne
    /\ \E c \in 1..Len(snap.components) :
          /\ Len(snap.components[c]) >= 2
          /\ ComponentFlat(c)[1] > 0
          /\ Cardinality(Elems(ComponentFlat(c))) < Len(ComponentFlat(c))
          /\ IndicesAt(json, ComponentPrimitive(c).indices) # ComponentFlat(c)


----------------------------------------------------------------------------
(* C5: the result of an expansion *)

\* An expansion of mesh op.arg, which had more than one primitive, completed
Expanded ==
    /\ op.name = "expand_multiprimitive_mesh"
    /\ err = ""
    /\ Len(snap.pre.json.meshes[op.arg + 1].primitives) > 1

\* Node x of document j references the mesh at (1-based) position m
ReferencesMesh(j, x, m) ==
    j.nodes[x].mesh.k # "none" /\ LinkPos(j.meshes, j.nodes[x].mesh) = m

\* C5: expanding a mesh of n > 1 primitives appends n - 1 meshes, primitive i
\* ending up alone in the i-th of the original mesh and the appended ones, and
\* every node that referenced the mesh loses its mesh and gets exactly n
\* fresh children that reference those meshes in primitive order.
C5_ExpandRewiresEveryNode ==
    Expanded =>
       LET before == snap.pre.json
           m == op.arg + 1
           n == Len(before.meshes[m].primitives)
           targets == <<m>> \o [i \in 1..(n - 1) |-> Len(before.meshes) + i]
       IN /\ Len(json.meshes) = Len(before.meshes) + n - 1
          /\ \A i \in 1..n :
                json.meshes[targets[i]].primitives = <<before.meshes[m].primitives[i]>>
          /\ \A x \in 1..Len(before.nodes) :
                ReferencesMesh(before, x, m) =>
                   /\ json.nodes[x].mesh.k = "none"
                   /\ Len(json.nodes[x].children) = n
                   /\ \A i \in 1..n :
                         LET c == LinkPos(json.nodes, json.nodes[x].children[i])
                         IN /\ c > Len(before.nodes)
                            /\ ReferencesMesh(json, c, targets[i])

----------------------------------------------------------------------------
(* C6, C7, C8: materialize and repack *)

\* C6: materialize, repack, flush and materialize again completes without
\* error, and every accessor then holds the payload it held after the first
\* materialization.
C6_RepackRoundTrip ==
    /\ snap.stage \in {"materialized", "repacked", "flushed", "rematerialized"} =>
          err = ""
    /\ snap.stage = "rematerialized" => Payloads(json) = snap.payload

\* The bytes one element of an accessor takes
ElementSize(accessor) == accessor_struct(accessor).size

\* The end of the last accessor packed into view v (1-based)
ViewSpan(v) ==
    LET ends == {json.accessors[a].byteOffset
                    + json.accessors[a].count * ElementSize(json.accessors[a]) :
                 a \in {a \in 1..Len(json.accessors) :
                           PyPos(json.bufferViews, json.accessors[a].bufferView) = v}}
    IN IF ends = {} THEN 0 ELSE CHOOSE e \in ends : \A f \in ends : f <= e

\* C7: after a materialized document was repacked, every bufferView's
\* byteLength is the length of its repacked bytes (the end of its last
\* accessor) and every buffer's byteLength is the length of its repacked
\* bytes.
C7_LengthsMatchRepackedBytes ==
    (snap.reverse /\ snap.stage = "repacked") =>
       /\ \A v \in 1..Len(json.bufferViews) :
             json.bufferViews[v].byteLength = ViewSpan(v)
       /\ \A b \in 1..Len(json.buffers) :
             json.buffers[b].byteLength = Len(json.buffers[b].data)

\* C8: after a completed repack every accessor byteOffset and every
\* bufferView byteOffset is a multiple of 4.
C8_OffsetsAligned ==
    snap.reverse =>
       /\ \A a \in 1..Len(json.accessors) : json.accessors[a].byteOffset % 4 = 0
       /\ \A v \in 1..Len(json.bufferViews) : json.bufferViews[v].byteOffset % 4 = 0

\* A repack completed in which a 3-byte payload is followed by another in its
\* view, and a view follows another in its buffer
C8_Witness ==
    /\ snap.reverse
    /\ \E a \in 1..Len(json.accessors), c \in 1..Len(json.accessors) :
          /\ json.accessors[a].bufferView = json.accessors[c].bufferView
          /\ json.accessors[a].byteOffset = 0
          /\ json.accessors[a].count = 3
          /\ json.accessors[c].byteOffset = 4
    /\ \E v \in 1..Len(json.bufferViews), w \in 1..Len(json.bufferViews) :
          /\ json.bufferViews[v].buffer = json.bufferViews[w].buffer
          /\ json.bufferViews[v].byteOffset = 0
          /\ json.bufferViews[w].byteOffset > 0

----------------------------------------------------------------------------
(* C9: the three representation flags describe every link *)

\* link has the form the flag says, and designates an element of target
LinkForm(target, link, reference) ==
    IF reference THEN RefKnown(target, link) ELSE IndexResolves(target, link)

\* C9: in every state left by operations that completed, every node -> mesh
\* and node -> child link is a reference when node_mesh_reference is set and
\* an integer otherwise, every primitive -> accessor link is a reference when
\* accessor_reference is set and an integer otherwise, and every accessor
\* carries its data exactly when accessor_data is set.
C9_LinksNeverMixed ==
    err = "" =>
       /\ \A n \in 1..Len(json.nodes) :
             /\ json.nodes[n].mesh.k # "none" =>
                   LinkForm(json.meshes, json.nodes[n].mesh, _node_mesh_reference)
             /\ \A c \in 1..Len(json.nodes[n].children) :
                   LinkForm(json.nodes, json.nodes[n].children[c],
                            _node_mesh_reference)
       /\ \A q \in 1..Len(PrimLinks(json)) :
             /\ PrimLinks(json)[q].indices.k # "none" =>
                   LinkForm(json.accessors, PrimLinks(json)[q].indices,
                            _accessor_reference)
             /\ \A a \in 1..Len(PrimLinks(json)[q].attributes) :
                   LinkForm(json.accessors, PrimLinks(json)[q].attributes[a].acc,
                            _accessor_reference)
       /\ \A a \in 1..Len(json.accessors) :
             json.accessors[a].hasData <=> _accessor_data

\* A split that added nodes, meshes and accessors was followed by the three
\* links going back to integers with the data still materialized
C9_Witness ==
    /\ err = ""
    /\ ~_node_mesh_reference /\ ~_accessor_reference /\ _accessor_data
    /\ snap.nm.round /\ ~snap.nm.valid
    /\ snap.acc.round
    /\ Len(json.nodes) > Len(snap.nm.links)
    /\ Len(json.accessors) > snap.acc.accessors

----------------------------------------------------------------------------
(* C10: dangling indices *)

\* The document was loaded with an index that is too large or negative
Dangling == snap.input.value \notin {0, 1}

\* C10: with a dangling index in the document, dereferencing the links that
\* hold it, or materializing through it, fails with an error.
C10_DanglingIndexFails ==
    /\ (Dangling /\ snap.input.kind \in {"mesh", "child"} /\ _node_mesh_reference) =>
          err # ""
    /\ (Dangling /\ snap.input.kind \in {"attribute", "indices"}
           /\ _accessor_reference) => err # ""
    /\ (Dangling /\ snap.input.kind \in {"bufferView", "buffer"} /\ _accessor_data) =>
          err # ""


----------------------------------------------------------------------------
(* C11: output is written only after the transforms *)

\* Every link and every accessor of the document is in the form of the file
FileForm ==
    /\ ~_node_mesh_reference /\ ~_accessor_data /\ ~_accessor_reference
    /\ \A n \in 1..Len(json.nodes) :
          /\ json.nodes[n].mesh.k # "ref"
          /\ \A c \in 1..Len(json.nodes[n].children) :
                json.nodes[n].children[c].k = "idx"
    /\ \A q \in 1..Len(PrimLinks(json)) :
          /\ PrimLinks(json)[q].indices.k # "ref"
          /\ \A a \in 1..Len(PrimLinks(json)[q].attributes) :
                PrimLinks(json)[q].attributes[a].acc.k = "idx"
    /\ \A a \in 1..Len(json.accessors) : ~json.accessors[a].hasData
    /\ \A v \in 1..Len(json.bufferViews) : ~json.bufferViews[v].hasData

\* C11: in the edit flow (process, then write) an output file, buffer side
\* file or serialized document, exists only once the split, the reindexing of
\* node/mesh and accessor links and the repack have all completed without
\* error; when one of them fails the edit stops with nothing written.
C11_NoOutputBeforeTransforms ==
    /\ written # <<>> =>
          /\ err = ""
          /\ op.name \in {"write.buffer", "write.document"}
          /\ FileForm
    /\ err # "" =>
          /\ written = <<>>
          /\ op.name \in {"process", "write.transforms"}
    /\ op.name \in {"__init__", "process", "write.transforms"} => written = <<>>

\* The split succeeded and the repack inside write then failed: nothing was
\* written
C11_Witness ==
    /\ op.name = "write.transforms"
    /\ err # ""
    /\ written = <<>>
    /\ Len(json.meshes) > 1
====
